---------------------------- MODULE Spec2Model ----------------------------
(***************************************************************************)
(* A model of the paeth crate: the Paeth decomposition of 2-d and 3-d      *)
(* rotations into one-dimensional shears (src/src/lib.rs) and the OpenCL   *)
(* two-pass rotation pipeline ClRotator2 (src/src/opencl.rs).              *)
(*                                                                         *)
(* Numbers.  The crate is generic over a BaseFloat N.  A value of N is     *)
(* modelled as a pair <<n, d>>: d > 0 is the finite number n/d in lowest   *)
(* terms (finite arithmetic is exact: no rounding, no overflow), <<1, 0>>  *)
(* and <<-1, 0>> are +Inf and -Inf, and <<0, 0>> is NaN.  The non-finite   *)
(* values follow the IEEE rules (x/0 = +-Inf, 0/0 = Inf - Inf = 0*Inf =    *)
(* NaN, every comparison with NaN is unordered).  The two zeros of IEEE    *)
(* are identified: a zero is +0.                                           *)
(***************************************************************************)
EXTENDS Integers, Sequences, FiniteSets, TLC

VARIABLES
    m2,      \* lib.rs: the 2x2 matrix handed to PaethRotation2::new_from_matrix
    p2,      \* lib.rs: the PaethRotation2 it returns
    rr2,     \* lib.rs test_rot2: rr = py * px
    m3,      \* lib.rs: the 3x3 matrix handed to PaethRotation3::new_from_matrix
    p3,      \* lib.rs: the PaethRotation3 it returns (or the panic of expect)
    rr3,     \* lib.rs test_rot3: rr = pz * py * px
    rot,     \* opencl.rs: the descriptor handed to forw_x / forw_y
    xargs,   \* opencl.rs forw_x: the scalars bound to shear_x arguments 0..6
    yargs,   \* opencl.rs forw_y: the scalars bound to shear_y arguments 0..6
    pc,      \* where the thread that owns the ClRotator2 is
    calls,   \* the forw invocations made so far, the last one the current
    queue,   \* the kernel launches accepted by the queue; an Event is an index
    kx,      \* ClRotator2.shear_x: the arguments bound to the kernel object
    ky,      \* ClRotator2.shear_y: the arguments bound to the kernel object
    content, \* for each buffer, the launch that wrote it last (0: the caller)
    buf_in,  \* rotate.rs: the caller's source buffer
    buf_out  \* rotate.rs: the caller's destination buffer (buf_in again: in place)

mathVars == <<m2, p2, rr2, m3, p3, rr3, rot, xargs, yargs>>
pipeVars == <<pc, calls, queue, kx, ky, content, buf_in, buf_out>>
vars == <<m2, p2, rr2, m3, p3, rr3, rot, xargs, yargs,
          pc, calls, queue, kx, ky, content, buf_in, buf_out>>

\* no ClRotator2 has been constructed
NoPipeline ==
    /\ pc = "off" /\ calls = <<>> /\ queue = <<>>
    /\ kx = <<>> /\ ky = <<>> /\ content = <<>>
    /\ buf_in = "" /\ buf_out = ""

---------------------------------------------------------------------------
(* Bounds of the inputs                                                    *)

\* general 2x2 matrices have integer entries in -MaxEntry2 .. MaxEntry2
MaxEntry2 == 2
\* rational rotations come from integer pairs / quaternions in -MaxQ .. MaxQ
MaxQ == 2
\* general 3x3 matrices have integer entries in 0 .. MaxEntry3
MaxEntry3 == 1
\* shear coefficients are the fractions n/d with |n| <= MaxCoef, 1 <= d <= MaxCoef
MaxCoef == 2
\* the caller makes at most MaxCalls forw invocations on the ClRotator2
MaxCalls == 2
\* the compute backend rejects at most MaxFailures binds or launches
MaxFailures == 2

---------------------------------------------------------------------------
(* The scalar type N                                                       *)

AbsInt(i) == IF i < 0 THEN -i ELSE i

SgnInt(i) == IF i < 0 THEN -1 ELSE IF i = 0 THEN 0 ELSE 1

RECURSIVE GCD(_, _)
GCD(a, b) == IF b = 0 THEN a ELSE GCD(b, a % b)

\* n/d in lowest terms with a positive denominator; d = 0 gives +-Inf or NaN
Norm(n, d) ==
    IF d = 0 THEN <<SgnInt(n), 0>>
    ELSE LET g == GCD(AbsInt(n), AbsInt(d))
             s == SgnInt(d)
         IN  <<(s * n) \div g, (s * d) \div g>>

Int2N(i) == <<i, 1>>
Zero == <<0, 1>>
One == <<1, 1>>
Two == <<2, 1>>
PInf == <<1, 0>>
NInf == <<-1, 0>>
NaN == <<0, 0>>

IsNaN(a) == a = NaN
IsInf(a) == a[2] = 0 /\ a[1] # 0
IsFinite(a) == a[2] > 0
IsZero(a) == a[2] > 0 /\ a[1] = 0

Neg(a) == <<-a[1], a[2]>>

Abs(a) == <<AbsInt(a[1]), a[2]>>

Add(a, b) ==
    IF IsNaN(a) \/ IsNaN(b) THEN NaN
    ELSE IF IsInf(a) /\ IsInf(b) THEN (IF a = b THEN a ELSE NaN)
    ELSE IF IsInf(a) THEN a
    ELSE IF IsInf(b) THEN b
    ELSE Norm(a[1] * b[2] + b[1] * a[2], a[2] * b[2])

Sub(a, b) == Add(a, Neg(b))

Mul(a, b) ==
    IF IsNaN(a) \/ IsNaN(b) THEN NaN
    ELSE IF IsInf(a) \/ IsInf(b)
         THEN (IF IsZero(a) \/ IsZero(b) THEN NaN
               ELSE <<SgnInt(a[1]) * SgnInt(b[1]), 0>>)
    ELSE Norm(a[1] * b[1], a[2] * b[2])

Div(a, b) ==
    IF IsNaN(a) \/ IsNaN(b) THEN NaN
    ELSE IF IsInf(a) /\ IsInf(b) THEN NaN
    ELSE IF IsInf(b) THEN Zero
    ELSE IF IsInf(a) THEN <<SgnInt(a[1]) * (IF b[1] < 0 THEN -1 ELSE 1), 0>>
    ELSE IF IsZero(b) THEN (IF IsZero(a) THEN NaN ELSE <<SgnInt(a[1]), 0>>)
    ELSE Norm(a[1] * b[2], a[2] * b[1])

\* a < b of PartialOrd: false when either side is NaN
Lt(a, b) ==
    /\ ~IsNaN(a)
    /\ ~IsNaN(b)
    /\ a # b
    /\ IF IsInf(a) THEN a = NInf
       ELSE IF IsInf(b) THEN b = PInf
       ELSE a[1] * b[2] < b[1] * a[2]

Le(a, b) == ~IsNaN(a) /\ ~IsNaN(b) /\ (a = b \/ Lt(a, b))

---------------------------------------------------------------------------
(* nalgebra Matrix2 and PaethRotation2 (lib.rs)                            *)

Matrix2(a, b, c, d) == [m11 |-> a, m12 |-> b, m21 |-> c, m22 |-> d]

\* Matrix2 * Matrix2
Mul2(a, b) ==
    Matrix2(Add(Mul(a.m11, b.m11), Mul(a.m12, b.m21)),
            Add(Mul(a.m11, b.m12), Mul(a.m12, b.m22)),
            Add(Mul(a.m21, b.m11), Mul(a.m22, b.m21)),
            Add(Mul(a.m21, b.m12), Mul(a.m22, b.m22)))

\* Rotation2::submatrix of a rotation whose cosine and sine are rational:
\* the angle of the point (a*a - b*b, 2*a*b) on the circle of radius a*a + b*b
Rotation2(a, b) ==
    LET c == Norm(a * a - b * b, a * a + b * b)
        s == Norm(2 * a * b, a * a + b * b)
    IN  Matrix2(c, Neg(s), s, c)

IsRotation2(m) ==
    /\ m.m11 = m.m22
    /\ m.m12 = Neg(m.m21)
    /\ Add(Mul(m.m11, m.m11), Mul(m.m21, m.m21)) = One

PaethRotation2(xx, xy, yx, yy) ==
    [tag |-> "desc", xx |-> xx, xy |-> xy, yx |-> yx, yy |-> yy]

\* a transcription slip: the correction term of yy is not divided by the pivot
new_from_matrix2_nodiv(m) ==
    PaethRotation2(m.m11, m.m12, Div(m.m21, m.m11),
                   Sub(m.m22, Mul(m.m21, m.m12)))

new_from_matrix2(m) ==
    PaethRotation2(m.m11, m.m12, Div(m.m21, m.m11),
                   Sub(m.m22, Div(Mul(m.m21, m.m12), m.m11)))

shear_y2(p) == Matrix2(One, Zero, p.yx, p.yy)

shear_x2(p) == Matrix2(p.xx, p.xy, Zero, One)

NoValue == [tag |-> "none"]

\* the matrices PaethRotation2::new_from_matrix is applied to
Ints2 == {Int2N(i) : i \in (0 - MaxEntry2) .. MaxEntry2}
QPairs == {q \in ((0 - MaxQ) .. MaxQ) \X ((0 - MaxQ) .. MaxQ) : q # <<0, 0>>}
Mats2 ==
    {Matrix2(a, b, c, d) : a \in Ints2, b \in Ints2, c \in Ints2, d \in Ints2}
    \cup {Rotation2(q[1], q[2]) : q \in QPairs}

Init2 ==
    /\ m2 \in Mats2
    /\ p2 = NoValue
    /\ rr2 = NoValue
    /\ m3 = NoValue /\ p3 = NoValue /\ rr3 = NoValue
    /\ rot = NoValue /\ xargs = NoValue /\ yargs = NoValue
    /\ NoPipeline

\* let p = PaethRotation2::new(&r)
NewFromMatrix2 ==
    /\ p2.tag = "none"
    /\ p2' = new_from_matrix2(m2)
    /\ UNCHANGED <<m2, rr2, m3, p3, rr3, rot, xargs, yargs, pipeVars>>

\* test_rot2: let rr = py * px
Reconstruct2 ==
    /\ p2.tag = "desc"
    /\ rr2.tag = "none"
    /\ rr2' = [tag |-> "prod", m |-> Mul2(shear_y2(p2), shear_x2(p2))]
    /\ UNCHANGED <<m2, p2, m3, p3, rr3, rot, xargs, yargs, pipeVars>>

Next2 == NewFromMatrix2 \/ Reconstruct2

SpecRot2 == Init2 /\ [][Next2]_vars

---------------------------------------------------------------------------
(* nalgebra Matrix3 and PaethRotation3 (lib.rs)                            *)

Matrix3(a11, a12, a13, a21, a22, a23, a31, a32, a33) ==
    [m11 |-> a11, m12 |-> a12, m13 |-> a13,
     m21 |-> a21, m22 |-> a22, m23 |-> a23,
     m31 |-> a31, m32 |-> a32, m33 |-> a33]

Dot3(a1, a2, a3, b1, b2, b3) == Add(Add(Mul(a1, b1), Mul(a2, b2)), Mul(a3, b3))

\* Matrix3 * Matrix3
Mul3(a, b) ==
    Matrix3(Dot3(a.m11, a.m12, a.m13, b.m11, b.m21, b.m31),
            Dot3(a.m11, a.m12, a.m13, b.m12, b.m22, b.m32),
            Dot3(a.m11, a.m12, a.m13, b.m13, b.m23, b.m33),
            Dot3(a.m21, a.m22, a.m23, b.m11, b.m21, b.m31),
            Dot3(a.m21, a.m22, a.m23, b.m12, b.m22, b.m32),
            Dot3(a.m21, a.m22, a.m23, b.m13, b.m23, b.m33),
            Dot3(a.m31, a.m32, a.m33, b.m11, b.m21, b.m31),
            Dot3(a.m31, a.m32, a.m33, b.m12, b.m22, b.m32),
            Dot3(a.m31, a.m32, a.m33, b.m13, b.m23, b.m33))

Minor(a, b, c, d) == Sub(Mul(a, b), Mul(c, d))

Determinant3(m) ==
    Add(Sub(Mul(m.m11, Minor(m.m22, m.m33, m.m32, m.m23)),
            Mul(m.m12, Minor(m.m21, m.m33, m.m31, m.m23))),
        Mul(m.m13, Minor(m.m21, m.m32, m.m31, m.m22)))

\* na::inverse of a Matrix3: None for a zero determinant, else adjugate / det
inverse(m) ==
    LET det == Determinant3(m)
    IN  IF IsZero(det) THEN [tag |-> "None"]
        ELSE [tag |-> "Some",
              m |-> Matrix3(
                Div(Minor(m.m22, m.m33, m.m32, m.m23), det),
                Div(Minor(m.m13, m.m32, m.m33, m.m12), det),
                Div(Minor(m.m12, m.m23, m.m22, m.m13), det),
                Div(Neg(Minor(m.m21, m.m33, m.m31, m.m23)), det),
                Div(Minor(m.m11, m.m33, m.m31, m.m13), det),
                Div(Minor(m.m13, m.m21, m.m23, m.m11), det),
                Div(Minor(m.m21, m.m32, m.m31, m.m22), det),
                Div(Minor(m.m12, m.m31, m.m32, m.m11), det),
                Div(Minor(m.m11, m.m22, m.m21, m.m12), det))]

shear_x_from_entries(xx, xy, xz) ==
    Matrix3(xx, xy, xz, Zero, One, Zero, Zero, Zero, One)

shear_y_from_entries(yx, yy, yz) ==
    Matrix3(One, Zero, Zero, yx, yy, yz, Zero, Zero, One)

shear_z_from_entries(zx, zy, zz) ==
    Matrix3(One, Zero, Zero, Zero, One, Zero, zx, zy, zz)

PaethRotation3(xx, xy, xz, yx, yy, yz, zx, zy, zz) ==
    [tag |-> "desc", xx |-> xx, xy |-> xy, xz |-> xz,
     yx |-> yx, yy |-> yy, yz |-> yz, zx |-> zx, zy |-> zy, zz |-> zz]

Panic(msg) == [tag |-> "panic", msg |-> msg]

\* a transcription slip: the x-shear is peeled off on the wrong side
new_from_matrix3_leftpeel(m) ==
    LET shear_x == shear_x_from_entries(m.m11, m.m12, m.m13)
        ix == inverse(shear_x)
    IN  IF ix.tag = "None" THEN Panic("shear_x was not invertible?")
        ELSE
        LET m_less_x == Mul3(ix.m, m)
            shear_y == shear_y_from_entries(m_less_x.m21, m_less_x.m22,
                                            m_less_x.m23)
            iy == inverse(shear_y)
        IN  IF iy.tag = "None" THEN Panic("shear_y not invertible?")
            ELSE
            LET m_less_yx == Mul3(m_less_x, iy.m)
            IN  PaethRotation3(m.m11, m.m12, m.m13,
                               m_less_x.m21, m_less_x.m22, m_less_x.m23,
                               m_less_yx.m31, m_less_yx.m32, m_less_yx.m33)

new_from_matrix3(m) ==
    LET shear_x == shear_x_from_entries(m.m11, m.m12, m.m13)
        ix == inverse(shear_x)
    IN  IF ix.tag = "None" THEN Panic("shear_x was not invertible?")
        ELSE
        LET m_less_x == Mul3(m, ix.m)
            shear_y == shear_y_from_entries(m_less_x.m21, m_less_x.m22,
                                            m_less_x.m23)
            iy == inverse(shear_y)
        IN  IF iy.tag = "None" THEN Panic("shear_y not invertible?")
            ELSE
            LET m_less_yx == Mul3(m_less_x, iy.m)
            IN  PaethRotation3(m.m11, m.m12, m.m13,
                               m_less_x.m21, m_less_x.m22, m_less_x.m23,
                               m_less_yx.m31, m_less_yx.m32, m_less_yx.m33)

shear_x3(p) == shear_x_from_entries(p.xx, p.xy, p.xz)

shear_y3(p) == shear_y_from_entries(p.yx, p.yy, p.yz)

shear_z3(p) == shear_z_from_entries(p.zx, p.zy, p.zz)

\* Rotation3::submatrix of the rotation of the integer quaternion (w, x, y, z)
Rotation3(w, x, y, z) ==
    LET n == w * w + x * x + y * y + z * z
    IN  Matrix3(Norm(w * w + x * x - y * y - z * z, n),
                Norm(2 * (x * y - w * z), n),
                Norm(2 * (x * z + w * y), n),
                Norm(2 * (x * y + w * z), n),
                Norm(w * w - x * x + y * y - z * z, n),
                Norm(2 * (y * z - w * x), n),
                Norm(2 * (x * z - w * y), n),
                Norm(2 * (y * z + w * x), n),
                Norm(w * w - x * x - y * y + z * z, n))

Transpose3(m) ==
    Matrix3(m.m11, m.m21, m.m31, m.m12, m.m22, m.m32, m.m13, m.m23, m.m33)

Identity3 == Matrix3(One, Zero, Zero, Zero, One, Zero, Zero, Zero, One)

IsRotation3(m) ==
    /\ Mul3(m, Transpose3(m)) = Identity3
    /\ Determinant3(m) = One

\* the matrices PaethRotation3::new_from_matrix is applied to
Ints3 == {Int2N(i) : i \in 0 .. MaxEntry3}
QRange == (0 - MaxQ) .. MaxQ
Quats == {q \in QRange \X QRange \X QRange \X QRange : q # <<0, 0, 0, 0>>}
Mats3 ==
    {Matrix3(a11, a12, a13, a21, a22, a23, a31, a32, a33) :
        a11 \in Ints3, a12 \in Ints3, a13 \in Ints3,
        a21 \in Ints3, a22 \in Ints3, a23 \in Ints3,
        a31 \in Ints3, a32 \in Ints3, a33 \in Ints3}
    \cup {Rotation3(q[1], q[2], q[3], q[4]) : q \in Quats}

Init3 ==
    /\ m3 \in Mats3
    /\ p3 = NoValue
    /\ rr3 = NoValue
    /\ m2 = NoValue /\ p2 = NoValue /\ rr2 = NoValue
    /\ rot = NoValue /\ xargs = NoValue /\ yargs = NoValue
    /\ NoPipeline

\* let p = PaethRotation3::new(&r)
NewFromMatrix3 ==
    /\ p3.tag = "none"
    /\ p3' = new_from_matrix3(m3)
    /\ UNCHANGED <<m2, p2, rr2, m3, rr3, rot, xargs, yargs, pipeVars>>

\* test_rot3: let rr = pz * py * px
Reconstruct3 ==
    /\ p3.tag = "desc"
    /\ rr3.tag = "none"
    /\ rr3' = [tag |-> "prod",
               m |-> Mul3(Mul3(shear_z3(p3), shear_y3(p3)), shear_x3(p3))]
    /\ UNCHANGED <<m2, p2, rr2, m3, p3, rot, xargs, yargs, pipeVars>>

Next3 == NewFromMatrix3 \/ Reconstruct3

SpecRot3 == Init3 /\ [][Next3]_vars

---------------------------------------------------------------------------
(* The filter parameters of forw_x and forw_y (opencl.rs)                  *)

\* a slip: the comparison of fmin is reversed, which makes it the maximum
fmin_reversed(x, y) == IF Lt(y, x) THEN x ELSE y

fmin(x, y) == IF Lt(x, y) THEN x ELSE y

RECURSIVE InsertSorted(_, _)
InsertSorted(s, v) ==
    IF s = <<>> THEN <<v>>
    ELSE IF Lt(v, Head(s)) THEN <<v>> \o s
    ELSE <<Head(s)>> \o InsertSorted(Tail(s), v)

RECURSIVE SortAscending(_)
SortAscending(s) ==
    IF s = <<>> THEN <<>>
    ELSE InsertSorted(SortAscending(Tail(s)), Head(s))

\* a slip: the taus are bound in the order they were written down
sort_by_skipped(taus) ==
    IF \E i \in 1 .. Len(taus) : IsNaN(taus[i])
    THEN Panic("called Option::unwrap() on a None value")
    ELSE [tag |-> "sorted", v |-> taus]

\* taus.sort_by(|l, r| l.partial_cmp(r).unwrap()): partial_cmp is None when
\* a side is NaN, and every element of a slice of four is compared
sort_by(taus) ==
    IF \E i \in 1 .. Len(taus) : IsNaN(taus[i])
    THEN Panic("called Option::unwrap() on a None value")
    ELSE [tag |-> "sorted", v |-> SortAscending(taus)]

half == Div(One, Add(One, One))

\* the four taus of a pass with diagonal coefficient c and cross coefficient k
Taus(c, k) ==
    << Add(Div(half, c), Div(Mul(half, k), c)),
       Sub(Div(half, c), Div(Mul(half, k), c)),
       Add(Div(Neg(half), c), Div(Mul(half, k), c)),
       Sub(Div(Neg(half), c), Div(Mul(half, k), c)) >>

ScalarArgs(a0, a1, a2, taus) ==
    [tag |-> "args", a0 |-> a0, a1 |-> a1, a2 |-> a2,
     a3 |-> taus[1], a4 |-> taus[2], a5 |-> taus[3], a6 |-> taus[4]]

\* forw_x up to its first bind: cx, cy, h and the sorted taus
forw_x_args(r) ==
    LET cx == Div(One, r.xx)
        cy == Div(Neg(r.xy), r.xx)
        h == fmin(One, Div(One, Abs(r.xy)))
        taus == sort_by(Taus(r.xx, r.xy))
    IN  IF taus.tag = "panic" THEN taus ELSE ScalarArgs(cx, cy, h, taus.v)

\* forw_y up to its first bind: cy, cx, h and the sorted taus
forw_y_args(r) ==
    LET cy == Div(One, r.yy)
        cx == Div(Neg(r.yx), r.yy)
        h == fmin(One, Div(One, Abs(r.yx)))
        taus == sort_by(Taus(r.yy, r.yx))
    IN  IF taus.tag = "panic" THEN taus ELSE ScalarArgs(cy, cx, h, taus.v)

\* the coefficients of the descriptors handed to forw: PaethRotation2 has
\* public fields, so any four values of N make one
Coefs == {Norm(n, d) : n \in (0 - MaxCoef) .. MaxCoef, d \in 1 .. MaxCoef}
Descriptors ==
    {PaethRotation2(xx, xy, yx, yy) :
        xx \in Coefs, xy \in Coefs, yx \in Coefs, yy \in Coefs}

InitParams ==
    /\ rot \in Descriptors
    /\ xargs = NoValue
    /\ yargs = NoValue
    /\ m2 = NoValue /\ p2 = NoValue /\ rr2 = NoValue
    /\ m3 = NoValue /\ p3 = NoValue /\ rr3 = NoValue
    /\ NoPipeline

\* forw: let evt_x = try!(self.forw_x(src, rot, wait_for))
ForwXArgs ==
    /\ xargs.tag = "none"
    /\ xargs' = forw_x_args(rot)
    /\ UNCHANGED <<m2, p2, rr2, m3, p3, rr3, rot, yargs, pipeVars>>

\* forw: self.forw_y(dst, rot, &[evt_x]), reached when forw_x did not panic
ForwYArgs ==
    /\ xargs.tag = "args"
    /\ yargs.tag = "none"
    /\ yargs' = forw_y_args(rot)
    /\ UNCHANGED <<m2, p2, rr2, m3, p3, rr3, rot, xargs, pipeVars>>

NextParams == ForwXArgs \/ ForwYArgs

SpecParams == InitParams /\ [][NextParams]_vars

---------------------------------------------------------------------------
(* ClRotator2 (opencl.rs) and the command queue it appends to              *)

\* ClRotator2::<f32>::new(queue, 512, 512)
nx == 512
ny == 512
wx == Div(Int2N(nx - 1), Two)
wy == Div(Int2N(ny - 1), Two)

\* the caller's buffers (the source is "a", the destination either: "a" is the
\* in-place use of rotate.rs), and the pipeline's intermediate buffer
Bufs == {"a", "b"}
tmp == "tmp"

\* a kernel object has arguments 0 .. 12, kept here at 1 .. NArgs
NArgs == 13
Unset == [tag |-> "unset"]
Scalar(v) == [tag |-> "scalar", v |-> v]
MemArg(b, mut) == [tag |-> "mem", buf |-> b, mut |-> mut]
UnboundKernel == [i \in 1 .. NArgs |-> Unset]

\* the thirteen binds of forw_x, in order
XBindings(a, src) ==
    << Scalar(a.a0), Scalar(a.a1), Scalar(a.a2),
       Scalar(a.a3), Scalar(a.a4), Scalar(a.a5), Scalar(a.a6),
       Scalar(Int2N(nx)), Scalar(Int2N(ny)), Scalar(wx), Scalar(wy),
       MemArg(src, FALSE), MemArg(tmp, TRUE) >>

\* the thirteen binds of forw_y, in order
YBindings(a, dst) ==
    << Scalar(a.a0), Scalar(a.a1), Scalar(a.a2),
       Scalar(a.a3), Scalar(a.a4), Scalar(a.a5), Scalar(a.a6),
       Scalar(Int2N(nx)), Scalar(Int2N(ny)), Scalar(wx), Scalar(wy),
       MemArg(tmp, FALSE), MemArg(dst, TRUE) >>

\* the kernel object after the first n binds succeeded (try! stops at a failure)
BindFirst(kernel, bindings, n) ==
    [i \in 1 .. NArgs |-> IF i <= n THEN bindings[i] ELSE kernel[i]]

\* queue.run_with_events(kernel, local_size, global_size, wait_for): the
\* launch takes the arguments the kernel object holds at that moment
Launch(name, call, kernel, global_size, wait_for) ==
    [kernel |-> name, call |-> call, args |-> kernel,
     local_size |-> <<32, 8, 1>>, global_size |-> global_size,
     wait |-> wait_for, status |-> "queued", seen |-> {}]

\* the buffer a launch reads (bound with bind) and the one it writes (bind_mut)
Reads(q) == q.args[NArgs - 1].buf
Writes(q) == q.args[NArgs].buf

\* a slip: the x-pass is launched without the caller's wait list
ForwXWaitFor_none(wait_for) == {}

\* forw: self.forw_x(src, rot, wait_for)
ForwXWaitFor(wait_for) == wait_for

\* a slip: the y-pass is launched with an empty wait list
ForwYWaitFor_none(evt_x, wait_for) == {}

\* a slip: the y-pass is launched on the caller's wait list
ForwYWaitFor_callers(evt_x, wait_for) == wait_for

\* forw: self.forw_y(dst, rot, &[evt_x])
ForwYWaitFor(evt_x, wait_for) == {evt_x}

\* forw: its value is the value of forw_y
ForwResult(evt_x, evt_y) == [tag |-> "Ok", evt |-> evt_y]

\* a slip: forw goes on to forw_y although forw_x returned an error
AfterForwXError_ignored == "forw_y"

\* forw: try!(self.forw_x(..)) returns the error of forw_x to the caller
AfterForwXError == "idle"

\* the matrices the descriptors handed to forw are decomposed from: a rotation
\* by atan2(4, 3), a quarter turn (m11 = 0), and a singular matrix (yy = 0)
PipelineMats == {Rotation2(2, 1), Rotation2(1, 1), Matrix2(One, One, One, One)}

cur == Len(calls)

Enter(c, state) == [c EXCEPT !.state = state, !.hist = Append(@, state)]

Err(pass, what) == [tag |-> "Err", pass |-> pass, what |-> what]

\* the events forw has returned to the caller
Returned == {calls[c].ret.evt : c \in {d \in DOMAIN calls : calls[d].ret.tag = "Ok"}}

\* the binds and launches the backend has rejected so far
Failures == Cardinality({c \in DOMAIN calls : calls[c].ret.tag = "Err"})

\* the events that have completed: a caller that waits for a returned event
\* (rotate.rs: .wait()) makes its next call in a state where it is one of
\* them; a call records which returned events had completed when it was made
Completed == {e \in DOMAIN queue : queue[e].status = "complete"}

InitPipeline ==
    /\ pc = "idle"
    /\ calls = <<>>
    /\ queue = <<>>
    /\ kx = UnboundKernel
    /\ ky = UnboundKernel
    /\ content = [b \in Bufs \cup {tmp} |-> 0]
    /\ buf_in = "a"
    /\ buf_out \in Bufs
    /\ m2 \in PipelineMats
    /\ p2 = new_from_matrix2(m2)
    /\ rr2 = NoValue
    /\ m3 = NoValue /\ p3 = NoValue /\ rr3 = NoValue
    /\ rot = NoValue /\ xargs = NoValue /\ yargs = NoValue

\* rotator.forw(&buf_in, &mut buf_out, &p, wait_for) is entered, with the
\* descriptor and the buffers the caller made before (rotate.rs)
Forw(wait_for) ==
    /\ pc = "idle"
    /\ Len(calls) < MaxCalls
    /\ calls' = Append(calls,
          [src |-> buf_in, dst |-> buf_out, rot |-> p2,
           wait_for |-> wait_for, done |-> Completed \cap Returned,
           state |-> "Idle", hist |-> <<"Idle">>,
           evt_x |-> 0, evt_y |-> 0,
           xlaunches |-> 0, ylaunches |-> 0,
           ret |-> [tag |-> "none"]])
    /\ pc' = "forw_x"
    /\ UNCHANGED <<queue, kx, ky, content, buf_in, buf_out, mathVars>>

\* forw_x: a tau is NaN and the unwrap in sort_by panics
ForwXPanic ==
    /\ pc = "forw_x"
    /\ LET a == forw_x_args(calls[cur].rot)
       IN  /\ a.tag = "panic"
           /\ calls' = [calls EXCEPT ![cur].ret = a]
    /\ pc' = "panicked"
    /\ UNCHANGED <<queue, kx, ky, content, buf_in, buf_out, mathVars>>

\* forw_x: bind number n (of 0 .. 12) fails and try! returns the error
ForwXBindErr ==
    /\ pc = "forw_x"
    /\ Failures < MaxFailures
    /\ LET a == forw_x_args(calls[cur].rot)
       IN  /\ a.tag = "args"
           /\ \E n \in 0 .. (NArgs - 1) :
                  kx' = BindFirst(kx, XBindings(a, calls[cur].src), n)
    /\ calls' = [calls EXCEPT ![cur] =
          [Enter(@, "Failed") EXCEPT !.ret = Err("x", "bind")]]
    /\ pc' = AfterForwXError
    /\ UNCHANGED <<queue, ky, content, buf_in, buf_out, mathVars>>

\* forw_x: every bind succeeds and run_with_events returns an error
ForwXLaunchErr ==
    /\ pc = "forw_x"
    /\ Failures < MaxFailures
    /\ LET a == forw_x_args(calls[cur].rot)
       IN  /\ a.tag = "args"
           /\ kx' = BindFirst(kx, XBindings(a, calls[cur].src), NArgs)
    /\ calls' = [calls EXCEPT ![cur] =
          [Enter(@, "Failed") EXCEPT !.ret = Err("x", "launch")]]
    /\ pc' = AfterForwXError
    /\ UNCHANGED <<queue, ky, content, buf_in, buf_out, mathVars>>

\* forw_x: every bind succeeds and the x-pass is launched
ForwXDispatch ==
    /\ pc = "forw_x"
    /\ LET a == forw_x_args(calls[cur].rot)
       IN  /\ a.tag = "args"
           /\ kx' = BindFirst(kx, XBindings(a, calls[cur].src), NArgs)
    /\ queue' = Append(queue, Launch("shear_x", cur, kx', <<nx, ny, 1>>,
                                     ForwXWaitFor(calls[cur].wait_for)))
    /\ calls' = [calls EXCEPT ![cur] =
          [Enter(@, "XPassDispatched") EXCEPT
              !.xlaunches = @ + 1, !.evt_x = Len(queue')]]
    /\ pc' = "forw_y"
    /\ UNCHANGED <<ky, content, buf_in, buf_out, mathVars>>

\* forw_y: a tau is NaN and the unwrap in sort_by panics
ForwYPanic ==
    /\ pc = "forw_y"
    /\ LET a == forw_y_args(calls[cur].rot)
       IN  /\ a.tag = "panic"
           /\ calls' = [calls EXCEPT ![cur].ret = a]
    /\ pc' = "panicked"
    /\ UNCHANGED <<queue, kx, ky, content, buf_in, buf_out, mathVars>>

\* forw_y: bind number n (of 0 .. 12) fails and try! returns the error
ForwYBindErr ==
    /\ pc = "forw_y"
    /\ Failures < MaxFailures
    /\ LET a == forw_y_args(calls[cur].rot)
       IN  /\ a.tag = "args"
           /\ \E n \in 0 .. (NArgs - 1) :
                  ky' = BindFirst(ky, YBindings(a, calls[cur].dst), n)
    /\ calls' = [calls EXCEPT ![cur] =
          [Enter(@, "Failed") EXCEPT !.ret = Err("y", "bind")]]
    /\ pc' = "idle"
    /\ UNCHANGED <<queue, kx, content, buf_in, buf_out, mathVars>>

\* forw_y: every bind succeeds and run_with_events returns an error
ForwYLaunchErr ==
    /\ pc = "forw_y"
    /\ Failures < MaxFailures
    /\ LET a == forw_y_args(calls[cur].rot)
       IN  /\ a.tag = "args"
           /\ ky' = BindFirst(ky, YBindings(a, calls[cur].dst), NArgs)
    /\ calls' = [calls EXCEPT ![cur] =
          [Enter(@, "Failed") EXCEPT !.ret = Err("y", "launch")]]
    /\ pc' = "idle"
    /\ UNCHANGED <<queue, kx, content, buf_in, buf_out, mathVars>>

\* forw_y: every bind succeeds and the y-pass is launched
ForwYDispatch ==
    /\ pc = "forw_y"
    /\ LET a == forw_y_args(calls[cur].rot)
       IN  /\ a.tag = "args"
           /\ ky' = BindFirst(ky, YBindings(a, calls[cur].dst), NArgs)
    /\ queue' = Append(queue, Launch("shear_y", cur, ky', <<ny, nx, 1>>,
                          ForwYWaitFor(calls[cur].evt_x, calls[cur].wait_for)))
    /\ calls' = [calls EXCEPT ![cur] =
          [Enter(@, "YPassDispatched") EXCEPT
              !.ylaunches = @ + 1, !.evt_y = Len(queue')]]
    /\ pc' = "return"
    /\ UNCHANGED <<kx, content, buf_in, buf_out, mathVars>>

\* forw returns Ok(event) to the caller, without blocking
ForwReturn ==
    /\ pc = "return"
    /\ calls' = [calls EXCEPT ![cur] =
          [Enter(@, "Complete") EXCEPT
              !.ret = ForwResult(calls[cur].evt_x, calls[cur].evt_y)]]
    /\ pc' = "idle"
    /\ UNCHANGED <<queue, kx, ky, content, buf_in, buf_out, mathVars>>

\* what the work items of launch e do in one step: they read its input
\* buffer and write its output buffer
Access(q, e) == [q EXCEPT ![e].seen = @ \cup {content[Reads(q[e])]}]

\* the device starts a launch: the events of its wait list have completed
\* (the queue may be out-of-order: the runs of an in-order queue, which also
\* waits for every earlier launch, are among these); its first work items run
StartKernel(e) ==
    /\ e \in DOMAIN queue
    /\ queue[e].status = "queued"
    /\ \A w \in queue[e].wait : queue[w].status = "complete"
    /\ queue' = [Access(queue, e) EXCEPT ![e].status = "running"]
    /\ content' = [content EXCEPT ![Writes(queue[e])] = e]
    /\ UNCHANGED <<pc, calls, kx, ky, buf_in, buf_out, mathVars>>

\* further work items of a running launch run
KernelAccess(e) ==
    /\ e \in DOMAIN queue
    /\ queue[e].status = "running"
    /\ queue' = Access(queue, e)
    /\ content' = [content EXCEPT ![Writes(queue[e])] = e]
    /\ UNCHANGED <<pc, calls, kx, ky, buf_in, buf_out, mathVars>>

\* a running launch completes, and so does its event
FinishKernel(e) ==
    /\ e \in DOMAIN queue
    /\ queue[e].status = "running"
    /\ queue' = [queue EXCEPT ![e].status = "complete"]
    /\ UNCHANGED <<pc, calls, kx, ky, content, buf_in, buf_out, mathVars>>

Next ==
    \/ \E wait_for \in SUBSET Returned : Forw(wait_for)
    \/ ForwXPanic
    \/ ForwXBindErr
    \/ ForwXLaunchErr
    \/ ForwXDispatch
    \/ ForwYPanic
    \/ ForwYBindErr
    \/ ForwYLaunchErr
    \/ ForwYDispatch
    \/ ForwReturn
    \/ \E e \in DOMAIN queue : StartKernel(e) \/ KernelAccess(e) \/ FinishKernel(e)

Spec == InitPipeline /\ [][Next]_vars

---------------------------------------------------------------------------
(* C2: for every 2x2 matrix with m11 # 0, shear_y() * shear_x() of the     *)
(* descriptor of new_from_matrix is the matrix again, entry by entry       *)
(* (R = Y*X), exactly.                                                     *)
C2_YX_Reconstructs ==
    (rr2.tag = "prod" /\ ~IsZero(m2.m11)) => rr2.m = m2

\* a proper rotation (neither the identity nor a half turn) has been rebuilt
C2_Witness ==
    /\ rr2.tag = "prod"
    /\ IsRotation2(m2)
    /\ ~IsZero(m2.m11)
    /\ ~IsZero(m2.m21)
    /\ rr2.m = m2

---------------------------------------------------------------------------
(* C3: for every 3x3 matrix whose peeling pivots xx = m11 and yy = the     *)
(* row-2 diagonal entry of m * Sx^-1 are non-zero, new_from_matrix gives a *)
(* descriptor whose rows are row 1 of m, row 2 of m * Sx^-1 and row 3 of   *)
(* m * Sx^-1 * Sy^-1, and shear_z() * shear_y() * shear_x() is m again,    *)
(* entry by entry (R = Z*Y*X).                                             *)
C3_ZYX_Reconstructs ==
    LET sx == shear_x_from_entries(m3.m11, m3.m12, m3.m13)
        detx == Determinant3(sx)
        m1 == IF IsZero(detx) THEN m3 ELSE Mul3(m3, inverse(sx).m)
        sy == shear_y_from_entries(m1.m21, m1.m22, m1.m23)
        m12 == IF IsZero(m1.m22) THEN m1 ELSE Mul3(m1, inverse(sy).m)
        PivotsOk == ~IsZero(m3.m11) /\ ~IsZero(m1.m22)
    IN  (p3.tag # "none" /\ PivotsOk) =>
            /\ p3.tag = "desc"
            /\ <<p3.xx, p3.xy, p3.xz>> = <<m3.m11, m3.m12, m3.m13>>
            /\ <<p3.yx, p3.yy, p3.yz>> = <<m1.m21, m1.m22, m1.m23>>
            /\ <<p3.zx, p3.zy, p3.zz>> = <<m12.m31, m12.m32, m12.m33>>
            /\ (rr3.tag = "prod" => rr3.m = m3)

\* a rotation about a skew axis, with all three shears non-trivial, rebuilt
C3_Witness ==
    /\ rr3.tag = "prod"
    /\ IsRotation3(m3)
    /\ ~IsZero(p3.xy) /\ ~IsZero(p3.xz)
    /\ ~IsZero(p3.yx) /\ ~IsZero(p3.yz)
    /\ ~IsZero(p3.zx) /\ ~IsZero(p3.zy)
    /\ rr3.m = m3

---------------------------------------------------------------------------
(* The four sign combinations +-1/(2c) +- k/(2c), as the claims write them *)
Combo(s1, s2, c, k) ==
    Add(Mul(Int2N(s1), Div(One, Mul(Two, c))),
        Mul(Int2N(s2), Div(k, Mul(Two, c))))
Combos(c, k) ==
    <<Combo(1, 1, c, k), Combo(1, -1, c, k),
      Combo(-1, 1, c, k), Combo(-1, -1, c, k)>>
Count(s, v) == Cardinality({i \in 1 .. Len(s) : s[i] = v})
IsPermutation(s, t) ==
    /\ Len(s) = Len(t)
    /\ \A i \in 1 .. Len(s) : Count(s, s[i]) = Count(t, s[i])
BoundTaus(a) == <<a.a3, a.a4, a.a5, a.a6>>
SortedPermutation(a, c, k) ==
    /\ a.tag = "args"
    /\ IsPermutation(BoundTaus(a), Combos(c, k))
    /\ Le(a.a3, a.a4) /\ Le(a.a4, a.a5) /\ Le(a.a5, a.a6)

(* C6: for every coefficient pair (c, k) with c # 0, in forw_x (c = xx,    *)
(* k = xy) and in forw_y (c = yy, k = yx), the values bound to kernel      *)
(* arguments 3..6 are a permutation of the four sign combinations          *)
(* +-1/(2c) +- k/(2c) and are in ascending order.                          *)
C6_TausSortedPermutation ==
    /\ (xargs.tag # "none" /\ ~IsZero(rot.xx)) =>
           SortedPermutation(xargs, rot.xx, rot.xy)
    /\ (yargs.tag # "none" /\ ~IsZero(rot.yy)) =>
           SortedPermutation(yargs, rot.yy, rot.yx)

\* both passes have bound four distinct taus that were not written in order
C6_Witness ==
    /\ xargs.tag = "args" /\ yargs.tag = "args"
    /\ Lt(xargs.a3, xargs.a4) /\ Lt(xargs.a4, xargs.a5) /\ Lt(xargs.a5, xargs.a6)
    /\ Lt(yargs.a3, yargs.a4) /\ Lt(yargs.a4, yargs.a5) /\ Lt(yargs.a5, yargs.a6)
    /\ BoundTaus(xargs) # Taus(rot.xx, rot.xy)
    /\ BoundTaus(yargs) # Taus(rot.yy, rot.yx)

BandBound(a) == Le(Sub(a.a6, a.a3), Mul(Two, a.a2))

(* C7 as stated: for any pair (c, k) the bound values satisfy              *)
(* tau3 - tau0 <= 2 * bandHalfWidth.                                       *)
C7_BandBoundAlways ==
    /\ (xargs.tag = "args" /\ ~IsZero(rot.xx)) => BandBound(xargs)
    /\ (yargs.tag = "args" /\ ~IsZero(rot.yy)) => BandBound(yargs)

\* min(1, 1/|k|) written without a division by zero
BandHalfWidth(k) == IF Le(Abs(k), One) THEN One ELSE Div(One, Abs(k))
SpreadLaw(a, c, k) ==
    /\ a.a2 = BandHalfWidth(k)
    /\ Sub(a.a6, a.a3) = Div(Add(One, Abs(k)), Abs(c))
    /\ BandBound(a) <=>
           Le(Add(One, Abs(k)), Mul(Mul(Two, Abs(c)), BandHalfWidth(k)))

(* C7 amended: for any pair (c, k) with c # 0, bandHalfWidth is            *)
(* min(1, 1/|k|) (1 when k = 0), tau3 - tau0 is (1 + |k|) / |c|, and       *)
(* tau3 - tau0 <= 2 * bandHalfWidth holds exactly when                     *)
(* 1 + |k| <= 2 * |c| * min(1, 1/|k|).                                     *)
C7_SpreadLaw ==
    /\ (xargs.tag = "args" /\ ~IsZero(rot.xx)) =>
           SpreadLaw(xargs, rot.xx, rot.xy)
    /\ (yargs.tag = "args" /\ ~IsZero(rot.yy)) =>
           SpreadLaw(yargs, rot.yy, rot.yx)

\* a steep shear (|k| > 1) whose spread exceeds twice the band half-width
C7_Witness ==
    /\ yargs.tag = "args"
    /\ Lt(One, Abs(rot.xy))
    /\ Lt(xargs.a2, One)
    /\ ~BandBound(xargs)
    /\ Lt(One, Abs(rot.yx))
    /\ ~BandBound(yargs)

---------------------------------------------------------------------------
(* Claims about the pipeline                                               *)

LaunchesOf(c) == {e \in DOMAIN queue : queue[e].call = c}
Started(e) == queue[e].status # "queued"
Done(e) == queue[e].status = "complete"

(* C1: within one forw call the y-pass, the only launch of the call that   *)
(* writes dst, is launched with the wait list {eX}, so it does not start   *)
(* (and dst is not written) before the x-pass has completed; the event     *)
(* forw returns is the y-pass event eY, whose completion implies that of   *)
(* the x-pass.                                                             *)
C1_YPassWaitsForXPass ==
    \A c \in DOMAIN calls :
        LET k == calls[c]
        IN  /\ k.evt_y # 0 =>
                /\ k.evt_x # 0
                /\ queue[k.evt_x].kernel = "shear_x" /\ queue[k.evt_x].call = c
                /\ queue[k.evt_y].kernel = "shear_y" /\ queue[k.evt_y].call = c
                /\ queue[k.evt_y].wait = {k.evt_x}
                /\ Started(k.evt_y) => Done(k.evt_x)
            /\ \A e \in LaunchesOf(c) :
                   Writes(queue[e]) = k.dst =>
                       /\ e = k.evt_y
                       /\ Started(e) => Done(k.evt_x)
            /\ k.ret.tag = "Ok" => (k.evt_y # 0 /\ k.ret.evt = k.evt_y)

\* a call has returned eY, both passes have completed and dst holds the
\* output of the y-pass
C1_Witness ==
    \E c \in DOMAIN calls :
        /\ calls[c].ret.tag = "Ok"
        /\ Done(calls[c].evt_x)
        /\ Done(calls[c].evt_y)
        /\ content[calls[c].dst] = calls[c].evt_y

InFlight(c) == \E e \in LaunchesOf(c) : ~Done(e)

(* C4 as stated: a ClRotator2 has at most one forw invocation in flight at *)
(* any time; a second call cannot dispatch its x-pass while a pass of an   *)
(* earlier call has not completed.                                         *)
C4_AtMostOneInFlight ==
    Cardinality({c \in DOMAIN calls : InFlight(c)}) <= 1

(* C4 amended: the pipeline does not limit the invocations in flight, the  *)
(* caller does: when a forw call is made with the event an earlier call    *)
(* returned in its wait list, or after that event has completed, no pass   *)
(* of it starts before both passes of the earlier call have completed, so  *)
(* the two calls never access tmp concurrently.                            *)
C4_SerialisedCallsDoNotOverlap ==
    \A c1 \in DOMAIN calls, c2 \in DOMAIN calls :
        ( /\ c1 < c2
          /\ calls[c1].ret.tag = "Ok"
          /\ calls[c1].ret.evt \in calls[c2].wait_for \cup calls[c2].done )
        => \A e2 \in LaunchesOf(c2) :
               Started(e2) => \A e1 \in LaunchesOf(c1) : Done(e1)

\* a second call, made with the first call's event in its wait list while
\* the first call was still in flight, has started its x-pass
C4_Witness ==
    \E c1 \in DOMAIN calls, c2 \in DOMAIN calls :
        /\ c1 < c2
        /\ calls[c1].ret.tag = "Ok"
        /\ calls[c1].ret.evt \in calls[c2].wait_for
        /\ calls[c1].ret.evt \notin calls[c2].done
        /\ calls[c2].evt_x # 0
        /\ Started(calls[c2].evt_x)

Transitions ==
    { <<"Idle", "XPassDispatched">>, <<"XPassDispatched", "YPassDispatched">>,
      <<"YPassDispatched", "Complete">>,
      <<"Idle", "Failed">>, <<"XPassDispatched", "Failed">> }
KernelLaunches(c, name) ==
    Cardinality({e \in LaunchesOf(c) : queue[e].kernel = name})

(* C9: each forw invocation follows Idle -> XPassDispatched ->             *)
(* YPassDispatched -> Complete, with Failed reachable from either dispatch *)
(* step (an invocation that panics stops where it was).  If a bind or the  *)
(* launch of the x-pass fails, forw returns that error at once: the y-pass *)
(* kernel is not bound or launched and nothing of the call writes dst.  If *)
(* a bind or the launch of the y-pass fails, forw returns that error.      *)
(* Each pass is launched at most once per invocation.                      *)
C9_InvocationStateMachine ==
    /\ \A c \in DOMAIN calls :
        LET k == calls[c]
        IN  /\ k.hist[1] = "Idle"
            /\ k.hist[Len(k.hist)] = k.state
            /\ \A i \in 1 .. (Len(k.hist) - 1) :
                   <<k.hist[i], k.hist[i + 1]>> \in Transitions
            /\ k.xlaunches <= 1 /\ KernelLaunches(c, "shear_x") = k.xlaunches
            /\ k.ylaunches <= 1 /\ KernelLaunches(c, "shear_y") = k.ylaunches
            /\ k.state = "Failed" <=> k.ret.tag = "Err"
            /\ k.state = "Complete" <=> k.ret.tag = "Ok"
            /\ k.ret.tag = "Err" => (c = cur => pc = "idle")
            /\ (k.ret.tag = "Err" /\ k.ret.pass = "x") =>
                   /\ k.hist = <<"Idle", "Failed">>
                   /\ LaunchesOf(c) = {}
                   /\ content[k.dst] \notin LaunchesOf(c)
            /\ (k.ret.tag = "Err" /\ k.ret.pass = "y") =>
                   /\ k.hist = <<"Idle", "XPassDispatched", "Failed">>
                   /\ LaunchesOf(c) = {k.evt_x}
    /\ (\A c \in DOMAIN calls : calls[c].evt_x = 0) => ky = UnboundKernel

\* one invocation failed in its x-pass and another in its y-pass
C9_Witness ==
    \E c1 \in DOMAIN calls, c2 \in DOMAIN calls :
        /\ calls[c1].ret.tag = "Err" /\ calls[c1].ret.pass = "x"
        /\ calls[c2].ret.tag = "Err" /\ calls[c2].ret.pass = "y"
        /\ Done(calls[c2].evt_x)

(* C10: within one forw call the x-pass reads src and writes only tmp, the *)
(* y-pass reads only tmp and writes dst, and every read of src by the      *)
(* x-pass is over before dst is first written; so when src and dst are the *)
(* same buffer the x-pass never observes data written by the y-pass of its *)
(* own call.                                                               *)
C10_XPassNeverSeesOwnYPass ==
    \A e \in DOMAIN queue :
        LET q == queue[e]
            k == calls[q.call]
        IN  /\ q.kernel = "shear_x" =>
                /\ Reads(q) = k.src /\ Writes(q) = tmp
                /\ k.evt_y # 0 => k.evt_y \notin q.seen
                /\ (k.evt_y # 0 /\ content[k.dst] = k.evt_y) => Done(e)
            /\ q.kernel = "shear_y" =>
                /\ Reads(q) = tmp /\ Writes(q) = k.dst

\* an in-place call has completed: the buffer holds the y-pass output and
\* the x-pass saw only what the buffer held before the call
C10_Witness ==
    \E c \in DOMAIN calls :
        /\ calls[c].src = calls[c].dst
        /\ calls[c].ret.tag = "Ok"
        /\ Done(calls[c].evt_y)
        /\ content[calls[c].dst] = calls[c].evt_y
        /\ queue[calls[c].evt_x].seen = {0}

---------------------------------------------------------------------------
(* Claims about the 2-d decomposition at and around a zero pivot           *)

(* C5: decomposing a 2x2 matrix with m11 = 0 yields a DegenerateShearPivot *)
(* error, never a descriptor that holds Inf or NaN.                        *)
C5_ZeroPivotIsDomainError ==
    (p2.tag # "none" /\ IsZero(m2.m11)) => p2.tag = "DegenerateShearPivot"

XY2(p) == Mul2(shear_x2(p), shear_y2(p))

(* C8 as stated: for every rotation matrix with m11 # 0 the descriptor     *)
(* {m11, m12, m21/m11, m22 - m21*m12/m11} gives back m as the product      *)
(* shearX * shearY.                                                        *)
C8_XY_Reconstructs ==
    (rr2.tag = "prod" /\ IsRotation2(m2) /\ ~IsZero(m2.m11)) => XY2(p2) = m2

(* C8 amended: for every rotation matrix with m11 # 0 the descriptor is    *)
(* {m11, m12, m21/m11, m22 - m21*m12/m11} and gives back m as the product  *)
(* shearY * shearX (shear-y the left factor); shearX * shearY is m only    *)
(* when m21 = 0, that is for the identity and the half turn.               *)
C8_YX_NotXY ==
    (rr2.tag = "prod" /\ IsRotation2(m2) /\ ~IsZero(m2.m11)) =>
        /\ p2 = PaethRotation2(m2.m11, m2.m12, Div(m2.m21, m2.m11),
                    Sub(m2.m22, Div(Mul(m2.m21, m2.m12), m2.m11)))
        /\ rr2.m = m2
        /\ XY2(p2) = m2 <=> IsZero(m2.m21)

\* a rotation with m21 # 0 rebuilt by Y*X and missed by X*Y
C8_Witness ==
    /\ rr2.tag = "prod"
    /\ IsRotation2(m2)
    /\ ~IsZero(m2.m11)
    /\ ~IsZero(m2.m21)
    /\ rr2.m = m2
    /\ XY2(p2) # m2

===========================================================================
